---------------------------- MODULE Spec2Model ----------------------------
(***************************************************************************)
(* Model of the Bitcoin technical indicators module (BitcoinIndicators)    *)
(* and of the page controller that renders its snapshots (updateUI).       *)
(*                                                                         *)
(* JavaScript numbers are modelled as exact fractions n/d extended with    *)
(* the IEEE specials: d = 0 with n = 1 is Infinity, n = -1 is -Infinity    *)
(* and n = 0 is NaN.  Rounding of doubles and the sign of zero are not     *)
(* modelled.  null and undefined are values of their own types.            *)
(*                                                                         *)
(* A local of the source that is read several times is a parameter of a    *)
(* helper operator here, so that it is computed once.                      *)
(***************************************************************************)
EXTENDS Integers, Sequences, FiniteSets, TLC

VARIABLES
    clock,          \* the value Date.now() returns
    started,        \* the number of updateUI invocations started so far
    intervalSet,    \* whether setInterval(updateUI, ...) has been reached
    pc,             \* where each invocation of updateUI stands
    response,       \* fetchKlines' local `response`, per activation frame
    batch,          \* the body the endpoint sent to each invocation
    result,         \* the settlement of each invocation's getAllIndicators
    dom,            \* which of .bento-grid and .loading-overlay the page has
    grid,           \* the cards in .bento-grid
    overlayHidden,  \* whether .loading-overlay has the class hidden
    logged,         \* the number of console.error calls
    fn,             \* the library function applied on its own, if any
    args,           \* its arguments
    ret             \* its result

vars == <<clock, started, intervalSet, pc, response, batch, result, dom, grid,
          overlayHidden, logged, fn, args, ret>>

page == <<clock, started, intervalSet, pc, response, batch, result, dom, grid,
          overlayHidden, logged>>

call == <<fn, args, ret>>

(***************************************************************************)
(* JavaScript values                                                       *)
(***************************************************************************)
Abs(i) == IF i < 0 THEN -i ELSE i

Sign(i) == IF i < 0 THEN -1 ELSE IF i > 0 THEN 1 ELSE 0

RECURSIVE Gcd(_, _)
Gcd(a, b) == IF b = 0 THEN a ELSE Gcd(b, a % b)

\* The number n/d in lowest terms, d # 0; g is the gcd of |n| and |d|.
RatBy(n, d, g) == [t |-> "number", n |-> Sign(d) * (n \div g), d |-> Abs(d) \div g]

Rat(n, d) == RatBy(n, d, Gcd(Abs(n), Abs(d)))

Num(i) == [t |-> "number", n |-> i, d |-> 1]

NaN == [t |-> "number", n |-> 0, d |-> 0]

\* Infinity with the sign s, s # 0.
Inf(s) == [t |-> "number", n |-> Sign(s), d |-> 0]

Null == [t |-> "null", n |-> 0, d |-> 1]

Undefined == [t |-> "undefined", n |-> 0, d |-> 1]

IsNaN(a) == a.t = "number" /\ a.d = 0 /\ a.n = 0

IsInf(a) == a.t = "number" /\ a.d = 0 /\ a.n # 0

IsFinite(a) == a.t = "number" /\ a.d # 0

\* The numeric conversion the operators apply to their operands.
ToNumber(a) ==
    CASE a.t = "number" -> a
      [] a.t = "null" -> Num(0)
      [] OTHER -> NaN

\* a + b for finite a and b; l is the least common denominator.
AddOver(a, b, l) == Rat(a.n * (l \div a.d) + b.n * (l \div b.d), l)

AddNum(a, b) ==
    CASE a.d # 0 /\ b.d # 0 -> AddOver(a, b, (a.d \div Gcd(a.d, b.d)) * b.d)
      [] (a.d = 0 /\ a.n = 0) \/ (b.d = 0 /\ b.n = 0) -> NaN
      [] a.d = 0 /\ b.d = 0 -> IF a.n = b.n THEN a ELSE NaN
      [] a.d = 0 -> a
      [] OTHER -> b

NegNum(a) == [a EXCEPT !.n = -a.n]

\* a * b for finite a and b, cancelling g1 = gcd(|a.n|, b.d) and
\* g2 = gcd(|b.n|, a.d) first.
MulBy(a, b, g1, g2) ==
    Rat((a.n \div g1) * (b.n \div g2), (a.d \div g2) * (b.d \div g1))

MulNum(a, b) ==
    CASE a.d # 0 /\ b.d # 0 -> MulBy(a, b, Gcd(Abs(a.n), b.d), Gcd(Abs(b.n), a.d))
      [] a.n = 0 \/ b.n = 0 -> NaN
      [] OTHER -> Inf(Sign(a.n) * Sign(b.n))

DivNum(a, b) ==
    CASE a.d # 0 /\ b.d # 0 /\ b.n # 0 ->
           MulBy(a, [t |-> "number", n |-> Sign(b.n) * b.d, d |-> Abs(b.n)],
                 Gcd(Abs(a.n), Abs(b.n)), Gcd(b.d, a.d))
      [] (a.d = 0 /\ a.n = 0) \/ (b.d = 0 /\ b.n = 0) -> NaN
      [] a.d = 0 /\ b.d = 0 -> NaN
      [] a.d = 0 -> IF b.n < 0 THEN Inf(-a.n) ELSE a
      [] b.d = 0 -> Num(0)
      [] OTHER -> IF a.n = 0 THEN NaN ELSE Inf(a.n)

\* a + b, a - b, a * b, a / b on values.
Add(a, b) == AddNum(ToNumber(a), ToNumber(b))

Sub(a, b) == AddNum(ToNumber(a), NegNum(ToNumber(b)))

Mul(a, b) == MulNum(ToNumber(a), ToNumber(b))

Div(a, b) == DivNum(ToNumber(a), ToNumber(b))

LtNum(a, b) ==
    CASE a.d # 0 /\ b.d # 0 -> a.n * b.d < b.n * a.d
      [] (a.d = 0 /\ a.n = 0) \/ (b.d = 0 /\ b.n = 0) -> FALSE
      [] a.d = 0 /\ b.d = 0 -> a.n < b.n
      [] a.d = 0 -> a.n < 0
      [] OTHER -> b.n > 0

LeNum(a, b) == ~IsNaN(a) /\ ~IsNaN(b) /\ ~LtNum(b, a)

\* a < b, a > b, a <= b, a >= b: false as soon as an operand is NaN.
Lt(a, b) == LtNum(ToNumber(a), ToNumber(b))

Gt(a, b) == LtNum(ToNumber(b), ToNumber(a))

Le(a, b) == LeNum(ToNumber(a), ToNumber(b))

Ge(a, b) == LeNum(ToNumber(b), ToNumber(a))

\* a === b for numbers.
StrictEq(a, b) == a.t = b.t /\ ~IsNaN(a) /\ ~IsNaN(b) /\ a = b

\* array[i] with the array's 0-based index: undefined outside the array.
At(arr, i) == IF i >= 0 /\ i < Len(arr) THEN arr[i + 1] ELSE Undefined

\* array.slice(from, to) with non-negative 0-based bounds.
Slice(arr, from, to) ==
    LET hi == IF to < Len(arr) THEN to ELSE Len(arr)
    IN  IF from >= hi THEN << >> ELSE [j \in 1..(hi - from) |-> arr[from + j]]

\* The loops below run their body for i = lo, ..., hi - 1 in this order; a
\* range of several steps is run as its first half followed by its second,
\* each on the value the steps before it left.
Mid(lo, hi) == (lo + hi) \div 2

\* v has been computed: statements run in order, each to a value.
Computed(v) == v = v

\* array.reduce((a, b) => a + b) of a non-empty array.
RECURSIVE SumLoop(_, _, _, _)
SumLoop(arr, lo, hi, acc) ==
    IF ~Computed(acc) \/ lo >= hi THEN acc
    ELSE IF hi - lo = 1 THEN Add(acc, At(arr, lo))
    ELSE SumLoop(arr, Mid(lo, hi), hi, SumLoop(arr, lo, Mid(lo, hi), acc))

Sum(arr) == SumLoop(arr, 1, Len(arr), arr[1])

\* Math.sqrt: exact on squares of fractions, otherwise rounded down to a
\* multiple of 1/(d * SqrtScale).
SqrtScale == 100

RECURSIVE IsqrtIn(_, _, _)
IsqrtIn(m, lo, hi) ==
    IF lo >= hi THEN lo
    ELSE LET mid == (lo + hi + 1) \div 2
         IN  IF mid * mid <= m THEN IsqrtIn(m, mid, hi) ELSE IsqrtIn(m, lo, mid - 1)

\* 46340 is the largest root whose square is a 32-bit integer.
Isqrt(m) == IsqrtIn(m, 0, IF m < 46340 THEN m ELSE 46340)

\* The root of x = n/d as the root of n * d over d; r is its integer part.
SqrtBy(x, r) ==
    IF r * r = x.n * x.d THEN Rat(r, x.d)
    ELSE Rat(Isqrt(x.n * x.d * SqrtScale * SqrtScale), x.d * SqrtScale)

SqrtNum(x) ==
    CASE x.d # 0 /\ x.n >= 0 -> SqrtBy(x, Isqrt(x.n * x.d))
      [] x.d = 0 /\ x.n > 0 -> x
      [] OTHER -> NaN

Sqrt(a) == SqrtNum(ToNumber(a))

(***************************************************************************)
(* INDICATOR CALCULATIONS                                                  *)
(***************************************************************************)

\* calculateRSI, the body of the loop over the first `period` changes once
\* `change` is computed; acc is <<gains, losses>>.
rsiSeedAdd(acc, change) ==
    IF Gt(change, Num(0)) THEN <<Add(acc[1], change), acc[2]>>
    ELSE <<acc[1], Sub(acc[2], change)>>

rsiSeedStep(closes, i, acc) ==
    rsiSeedAdd(acc, Sub(At(closes, i), At(closes, i - 1)))

RECURSIVE rsiSeedLoop(_, _, _, _)
rsiSeedLoop(closes, lo, hi, acc) ==
    IF ~Computed(acc) \/ lo >= hi THEN acc
    ELSE IF hi - lo = 1 THEN rsiSeedStep(closes, lo, acc)
    ELSE rsiSeedLoop(closes, Mid(lo, hi), hi,
                     rsiSeedLoop(closes, lo, Mid(lo, hi), acc))

\* One step of Wilder's smoothing: (avg * (period - 1) + x) / period.
rsiSmooth(avg, x, period) ==
    Div(Add(Mul(avg, Num(period - 1)), x), Num(period))

\* calculateRSI, the body of the loop over the later changes once `change`
\* is computed; avg is <<avgGain, avgLoss>>.
rsiSmoothBoth(avg, change, period) ==
    <<rsiSmooth(avg[1], IF Gt(change, Num(0)) THEN change ELSE Num(0), period),
      rsiSmooth(avg[2], IF Lt(change, Num(0)) THEN NegNum(change) ELSE Num(0), period)>>

rsiSmoothStep(closes, period, i, avg) ==
    rsiSmoothBoth(avg, Sub(At(closes, i), At(closes, i - 1)), period)

RECURSIVE rsiSmoothLoop(_, _, _, _, _)
rsiSmoothLoop(closes, period, lo, hi, avg) ==
    IF ~Computed(avg) \/ lo >= hi THEN avg
    ELSE IF hi - lo = 1 THEN rsiSmoothStep(closes, period, lo, avg)
    ELSE rsiSmoothLoop(closes, period, Mid(lo, hi), hi,
                       rsiSmoothLoop(closes, period, lo, Mid(lo, hi), avg))

\* calculateRSI, the value returned from the two averages.
rsiValueUnguarded(avgGain, avgLoss) ==
    Sub(Num(100), Div(Num(100), Add(Num(1), Div(avgGain, avgLoss))))

rsiValue(avgGain, avgLoss) ==
    IF StrictEq(avgLoss, Num(0)) THEN Num(100)
    ELSE Sub(Num(100), Div(Num(100), Add(Num(1), Div(avgGain, avgLoss))))

\* calculateRSI from the first averages on: the second loop and the return.
rsiFromAverages(avg) == rsiValue(avg[1], avg[2])

\* calculateRSI from the sums of the first loop on.
rsiFromSums(closes, period, sums) ==
    rsiFromAverages(rsiSmoothLoop(closes, period, period + 1, Len(closes),
                                  <<Div(sums[1], Num(period)),
                                    Div(sums[2], Num(period))>>))

calculateRSI(closes, period) ==
    IF Len(closes) < period + 1 THEN Null
    ELSE rsiFromSums(closes, period,
                     rsiSeedLoop(closes, 1, period + 1, <<Num(0), Num(0)>>))

\* The smoothing constant 2 / (period + 1).
smoothingK(period) == Div(Num(2), Num(period + 1))

\* One step of the recurrence: close * k + ema * (1 - k).
emaStepOvershoot(close, ema, k) ==
    Add(Mul(close, k), Mul(ema, Add(Num(1), k)))

emaStep(close, ema, k) ==
    Add(Mul(close, k), Mul(ema, Sub(Num(1), k)))

RECURSIVE emaLoop(_, _, _, _, _)
emaLoop(closes, lo, hi, ema, k) ==
    IF ~Computed(ema) \/ lo >= hi THEN ema
    ELSE IF hi - lo = 1 THEN emaStep(At(closes, lo), ema, k)
    ELSE emaLoop(closes, Mid(lo, hi), hi,
                 emaLoop(closes, lo, Mid(lo, hi), ema, k), k)

\* The mean of the first `period` elements, the seed of an average.
seedMean(arr, period) == Div(Sum(Slice(arr, 0, period)), Num(period))

calculateEMA(closes, period) ==
    IF Len(closes) < period THEN Null
    ELSE emaLoop(closes, period, Len(closes), seedMean(closes, period),
                 smoothingK(period))

\* calculateMACD, the end of the body of the loop that builds macdLine, once
\* the two averages are stepped; st holds fastEMA, slowEMA and macdLine.
macdPush(st, fastEMA, slowEMA) ==
    [fastEMA |-> fastEMA, slowEMA |-> slowEMA,
     macdLine |-> Append(st.macdLine, Sub(fastEMA, slowEMA))]

macdStep(closes, i, st, fastK, slowK) ==
    macdPush(st, emaStep(At(closes, i), st.fastEMA, fastK),
                 emaStep(At(closes, i), st.slowEMA, slowK))

RECURSIVE macdLoop(_, _, _, _, _, _)
macdLoop(closes, lo, hi, st, fastK, slowK) ==
    IF ~Computed(st) \/ lo >= hi THEN st
    ELSE IF hi - lo = 1 THEN macdStep(closes, lo, st, fastK, slowK)
    ELSE macdLoop(closes, Mid(lo, hi), hi,
                  macdLoop(closes, lo, Mid(lo, hi), st, fastK, slowK),
                  fastK, slowK)

\* calculateMACD, the object returned.
macdResultSwapped(currentMACD, signalEMA) ==
    [macd |-> currentMACD, signal |-> signalEMA,
     histogram |-> Sub(signalEMA, currentMACD)]

macdResult(currentMACD, signalEMA) ==
    [macd |-> currentMACD, signal |-> signalEMA,
     histogram |-> Sub(currentMACD, signalEMA)]

\* The TypeError of reduce on an empty array, of a property read on null.
TypeError == [t |-> "TypeError", n |-> 0, d |-> 1]

\* calculateMACD from the signal line on, macdLine being built.
macdFromLine(macdLine, signalPeriod) ==
    IF macdLine = << >> THEN TypeError
    ELSE macdResult(At(macdLine, Len(macdLine) - 1),
                    emaLoop(macdLine, signalPeriod, Len(macdLine),
                            seedMean(macdLine, signalPeriod),
                            smoothingK(signalPeriod)))

Max(a, b) == IF a > b THEN a ELSE b

calculateMACD(closes, fastPeriod, slowPeriod, signalPeriod) ==
    IF Len(closes) < slowPeriod + signalPeriod THEN Null
    ELSE macdFromLine(macdLoop(closes, Max(fastPeriod, slowPeriod), Len(closes),
                               [fastEMA |-> seedMean(closes, fastPeriod),
                                slowEMA |-> seedMean(closes, slowPeriod),
                                macdLine |-> << >>],
                               smoothingK(fastPeriod),
                               smoothingK(slowPeriod)).macdLine,
                      signalPeriod)

\* calculateBollingerBands, the object returned.
bandsUnscaledLower(sma, standardDeviation, stdDev) ==
    [upper |-> Add(sma, Mul(standardDeviation, stdDev)),
     middle |-> sma,
     lower |-> Sub(sma, standardDeviation)]

bands(sma, standardDeviation, stdDev) ==
    [upper |-> Add(sma, Mul(standardDeviation, stdDev)),
     middle |-> sma,
     lower |-> Sub(sma, Mul(standardDeviation, stdDev))]

\* Math.pow(x, 2).
Square(x) == Mul(x, x)

\* calculateBollingerBands from the squared differences on.
bandsAround(recentCloses, sma, period, stdDev) ==
    bands(sma,
          Sqrt(Div(Sum([j \in 1..Len(recentCloses) |->
                          Square(Sub(recentCloses[j], sma))]),
                   Num(period))),
          stdDev)

\* calculateBollingerBands from the mean on.
bandsOf(recentCloses, period, stdDev) ==
    bandsAround(recentCloses, Div(Sum(recentCloses), Num(period)), period, stdDev)

calculateBollingerBands(closes, period, stdDev) ==
    IF Len(closes) < period THEN Null
    ELSE bandsOf(Slice(closes, Len(closes) - period, Len(closes)), period, stdDev)

(***************************************************************************)
(* calculateBullMarketIndicator.  The tags and labels are the source's,    *)
(* written without accents and without the trailing emoji.                 *)
(***************************************************************************)

\* One row of the rule table: the weight added and the tags pushed.
Row(w, tags) == [add |-> w, tags |-> tags]

rsiRow(rsi) ==
    IF Ge(rsi, Num(40)) /\ Le(rsi, Num(70)) THEN Row(20, <<"RSI sain">>)
    ELSE IF Gt(rsi, Num(70)) THEN Row(0, <<"RSI surachat">>)
    ELSE Row(0, <<"RSI faible">>)

macdRowNonNegative(histogram) ==
    IF Ge(histogram, Num(0)) THEN Row(25, <<"MACD positif">>)
    ELSE Row(0, <<"MACD negatif">>)

macdRow(histogram) ==
    IF Gt(histogram, Num(0)) THEN Row(25, <<"MACD positif">>)
    ELSE Row(0, <<"MACD negatif">>)

crossRowAtLeast(ema50, ema200) ==
    IF Ge(ema50, ema200) THEN Row(30, <<"Golden Cross">>)
    ELSE Row(0, <<"Death Cross">>)

crossRow(ema50, ema200) ==
    IF Gt(ema50, ema200) THEN Row(30, <<"Golden Cross">>)
    ELSE Row(0, <<"Death Cross">>)

priceEma50Row(currentPrice, ema50) ==
    IF Gt(currentPrice, ema50) THEN Row(15, <<"Prix > EMA50">>) ELSE Row(0, << >>)

priceEma200Row(currentPrice, ema200) ==
    IF Gt(currentPrice, ema200) THEN Row(10, <<"Prix > EMA200">>) ELSE Row(0, << >>)

\* The phase and its colour for a score.
phaseOfLateModerate(score) ==
    IF score >= 80 THEN [phase |-> "Bull Market Fort", phaseColor |-> "up"]
    ELSE IF score > 60 THEN [phase |-> "Bull Market Modere", phaseColor |-> "up"]
    ELSE IF score >= 40 THEN [phase |-> "Neutre / Consolidation", phaseColor |-> "neutral"]
    ELSE IF score >= 20 THEN [phase |-> "Bear Market Modere", phaseColor |-> "down"]
    ELSE [phase |-> "Bear Market Fort", phaseColor |-> "down"]

phaseOf(score) ==
    IF score >= 80 THEN [phase |-> "Bull Market Fort", phaseColor |-> "up"]
    ELSE IF score >= 60 THEN [phase |-> "Bull Market Modere", phaseColor |-> "up"]
    ELSE IF score >= 40 THEN [phase |-> "Neutre / Consolidation", phaseColor |-> "neutral"]
    ELSE IF score >= 20 THEN [phase |-> "Bear Market Modere", phaseColor |-> "down"]
    ELSE [phase |-> "Bear Market Fort", phaseColor |-> "down"]

\* The object returned for a score and its tags.
bullResult(score, signals) ==
    [score |-> score, phase |-> phaseOf(score).phase,
     phaseColor |-> phaseOf(score).phaseColor, signals |-> signals]

\* The five rules applied in order.
bullRows(r1, r2, r3, r4, r5) ==
    bullResult(r1.add + r2.add + r3.add + r4.add + r5.add,
               r1.tags \o r2.tags \o r3.tags \o r4.tags \o r5.tags)

\* Reading macd.histogram throws when macd is null.
calculateBullMarketIndicator(rsi, macd, ema50, ema200, currentPrice) ==
    IF macd = Null THEN TypeError
    ELSE bullRows(rsiRow(rsi), macdRow(macd.histogram), crossRow(ema50, ema200),
                  priceEma50Row(currentPrice, ema50),
                  priceEma200Row(currentPrice, ema200))

(***************************************************************************)
(* DATA FETCHING                                                           *)
(***************************************************************************)
CANDLES_LIMIT == 200

\* A JSON string, as the sequence of its characters.
Str(chars) == [t |-> "string", s |-> chars]

Digits == {"0", "1", "2", "3", "4", "5", "6", "7", "8", "9"}

DigitValue(c) ==
    CASE c = "0" -> 0 [] c = "1" -> 1 [] c = "2" -> 2 [] c = "3" -> 3
      [] c = "4" -> 4 [] c = "5" -> 5 [] c = "6" -> 6 [] c = "7" -> 7
      [] c = "8" -> 8 [] c = "9" -> 9

\* The end of the run of digits of s that starts at position i (1-based).
RECURSIVE DigitsEnd(_, _)
DigitsEnd(s, i) ==
    IF i <= Len(s) /\ s[i] \in Digits THEN DigitsEnd(s, i + 1) ELSE i

\* The digits s[i..j-1] read after the numerator n over the denominator d;
\* step is 10 in the fraction part and 1 in the integer part.
RECURSIVE ReadDigits(_, _, _, _, _, _)
ReadDigits(s, i, j, n, d, step) ==
    IF i >= j THEN <<n, d>>
    ELSE ReadDigits(s, i + 1, j, 10 * n + DigitValue(s[i]), d * step, step)

RECURSIVE SkipSpaces(_, _)
SkipSpaces(s, i) ==
    IF i <= Len(s) /\ s[i] = " " THEN SkipSpaces(s, i + 1) ELSE i

\* The number read, nd being <<numerator, denominator>>.
Signed(neg, nd) == Rat(IF neg THEN -nd[1] ELSE nd[1], nd[2])

\* parseFloat, after a dot at j: the fraction digits end at k.
parseFraction(s, neg, i, j, k) ==
    IF j = i /\ k = j + 1 THEN NaN
    ELSE Signed(neg, ReadDigits(s, j + 1, k, ReadDigits(s, i, j, 0, 1, 1)[1], 1, 10))

\* parseFloat, after the sign: the integer digits are s[i..j-1].
parseDigits(s, neg, i, j) ==
    IF j <= Len(s) /\ s[j] = "." THEN parseFraction(s, neg, i, j, DigitsEnd(s, j + 1))
    ELSE IF j = i THEN NaN
    ELSE Signed(neg, ReadDigits(s, i, j, 0, 1, 1))

\* parseFloat, after the leading blanks: b is the first other position.
parseSign(s, b) ==
    IF b <= Len(s) /\ s[b] \in {"-", "+"}
    THEN parseDigits(s, s[b] = "-", b + 1, DigitsEnd(s, b + 1))
    ELSE parseDigits(s, FALSE, b, DigitsEnd(s, b))

\* parseFloat of a string: leading blanks, a sign, the longest decimal
\* literal; anything after it is ignored; NaN when there is no digit.
\* Exponents and the literal Infinity are not modelled.
parseFloatString(s) == parseSign(s, SkipSpaces(s, 1))

\* parseFloat of a JSON value: a missing or null field has no digits.
parseFloat(v) == IF v.t = "string" THEN parseFloatString(v.s) ELSE NaN

\* The candle object built from one row of the response.
parseCandle(candle) ==
    [timestamp |-> At(candle, 0),
     open |-> parseFloat(At(candle, 1)),
     high |-> parseFloat(At(candle, 2)),
     low |-> parseFloat(At(candle, 3)),
     close |-> parseFloat(At(candle, 4)),
     volume |-> parseFloat(At(candle, 5))]

\* data.map(candle => ...) in fetchKlines.
parseKlines(data) == [j \in 1..Len(data) |-> parseCandle(data[j])]

(***************************************************************************)
(* PUBLIC API                                                              *)
(***************************************************************************)
RsiPeriod == 14

MacdFast == 12

MacdSlow == 26

MacdSignal == 9

BollingerPeriod == 20

BollingerStdDev == 2

Ema50Period == 50

Ema200Period == 200

SpreadHigh == 20000

SpreadLow == 10000

Resolved(v) == [kind |-> "resolved", value |-> v]

Rejected(e) == [kind |-> "rejected", value |-> e]

spreadCategoryOf(spread) ==
    IF Gt(spread, Num(SpreadHigh)) THEN "Eleve (Forte volatilite)"
    ELSE IF Lt(spread, Num(SpreadLow)) THEN "Faible (Consolidation)"
    ELSE "Moyen (Volatilite normale)"

emaTrendOf(ema50, ema200) ==
    IF Gt(ema50, ema200) THEN "Haussier (Golden Cross)"
    ELSE IF Lt(ema50, ema200) THEN "Baissier (Death Cross)"
    ELSE "Neutre"

\* getAllIndicators, the object returned.
snapshotOf(currentPrice, rsi, macd, bollinger, ema50, ema200, bullMarket, spread, now) ==
    [currentPrice |-> currentPrice,
     timestamp |-> now,
     rsi |-> [value |-> rsi, period |-> RsiPeriod, timeframe |-> "Daily"],
     macd |-> [macd |-> macd.macd, signal |-> macd.signal,
               histogram |-> macd.histogram,
               periods |-> "12/26/9", timeframe |-> "Daily"],
     bollinger |-> [upper |-> bollinger.upper, middle |-> bollinger.middle,
                    lower |-> bollinger.lower, spread |-> spread,
                    spreadCategory |-> spreadCategoryOf(spread),
                    period |-> BollingerPeriod, timeframe |-> "Daily"],
     ema |-> [ema50 |-> ema50, ema200 |-> ema200,
              trend |-> emaTrendOf(ema50, ema200), timeframe |-> "Daily"],
     bullMarket |-> bullMarket]

\* getAllIndicators from the spread on: calculateBullMarketIndicator threw on
\* a null macd, bollinger.upper throws on a null bollinger.
snapshotAfterBull(currentPrice, rsi, macd, bollinger, ema50, ema200, bullMarket, now) ==
    IF bullMarket = TypeError \/ bollinger = Null THEN Rejected("TypeError")
    ELSE Resolved(snapshotOf(currentPrice, rsi, macd, bollinger, ema50, ema200,
                             bullMarket, Sub(bollinger.upper, bollinger.lower), now))

\* getAllIndicators from the composite score on.
snapshotAfterIndicators(currentPrice, rsi, macd, bollinger, ema50, ema200, now) ==
    snapshotAfterBull(currentPrice, rsi, macd, bollinger, ema50, ema200,
                      calculateBullMarketIndicator(rsi, macd, ema50, ema200, currentPrice),
                      now)

\* getAllIndicators from the closes on.
snapshotOfCloses(closes, now) ==
    snapshotAfterIndicators(At(closes, Len(closes) - 1),
                            calculateRSI(closes, RsiPeriod),
                            calculateMACD(closes, MacdFast, MacdSlow, MacdSignal),
                            calculateBollingerBands(closes, BollingerPeriod,
                                                    Num(BollingerStdDev)),
                            calculateEMA(closes, Ema50Period),
                            calculateEMA(closes, Ema200Period),
                            now)

\* getAllIndicators after the await: the settlement of its promise for the
\* candles klines, with now the value of Date.now().
computeSnapshot(klines, now) ==
    snapshotOfCloses([j \in 1..Len(klines) |-> klines[j].close], now)

(***************************************************************************)
(* The responses of the klines endpoint.  A body is described by its       *)
(* number of candles n, the last close (the closes before it are all       *)
(* FlatClose) and one malformed field, if any.                             *)
(***************************************************************************)
FlatClose == Str(<<"1", "0", "0">>)

LastClose(last) ==
    CASE last = "flat" -> FlatClose
      [] last = "up" -> Str(<<"1", "0", "0", ".", "5">>)
      [] last = "down" -> Str(<<"9", "9", ".", "5">>)

Lasts == {"flat", "up", "down"}

\* closeText: the last close is not a number; closeMissing: the first candle
\* stops before its close; openText: the last open is not a number;
\* closeSuffix: the last close is a number followed by text.
BadKinds == {"closeText", "closeMissing", "openText", "closeSuffix"}

Volume == Str(<<"7">>)

Candle(b, j) ==
    LET close == IF j = b.n THEN LastClose(b.last) ELSE FlatClose
        text == Str(<<"a", "b", "c">>)
    IN  CASE b.bad = "closeText" /\ j = b.n ->
               <<Num(j), FlatClose, FlatClose, FlatClose, text, Volume>>
          [] b.bad = "closeSuffix" /\ j = b.n ->
               <<Num(j), FlatClose, FlatClose, FlatClose,
                 Str(<<"1", "0", "1", "x">>), Volume>>
          [] b.bad = "openText" /\ j = b.n ->
               <<Num(j), text, FlatClose, FlatClose, close, Volume>>
          [] b.bad = "closeMissing" /\ j = 1 ->
               <<Num(j), FlatClose, FlatClose, FlatClose>>
          [] OTHER -> <<Num(j), FlatClose, FlatClose, FlatClose, close, Volume>>

\* The parsed JSON of the body b: an array of arrays, oldest candle first.
RawData(b) == [j \in 1..b.n |-> Candle(b, j)]

Body(n, last, bad) == [n |-> n, last |-> last, bad |-> bad]

\* The lengths around each indicator's lookback; the endpoint returns at
\* most `limit` candles.
Lengths ==
    {0, 1, RsiPeriod, RsiPeriod + 1, BollingerPeriod - 1, BollingerPeriod,
     MacdSlow + MacdSignal - 1, MacdSlow + MacdSignal, Ema50Period - 1,
     Ema50Period, Ema200Period - 1, CANDLES_LIMIT}

Bodies ==
    {Body(n, last, "none") : n \in Lengths, last \in Lasts}
      \cup {Body(n, "up", bad) : n \in {Ema50Period, CANDLES_LIMIT}, bad \in BadKinds}
\* getAllIndicators reads Date.now() only to stamp the snapshot it returns:
\* its settlement is tabulated per body and stamped afterwards.
settlementOf == [b \in Bodies |-> computeSnapshot(parseKlines(RawData(b)), 0)]

stamped(settlement, now) ==
    IF settlement.kind = "resolved"
    THEN [settlement EXCEPT !.value.timestamp = now]
    ELSE settlement

\* The snapshot stamped with the open time of the last candle, candle j of a
\* body opening at j.
getAllIndicatorsAtCandleTime(b, now) == stamped(settlementOf[b], b.n)

getAllIndicators(b, now) == stamped(settlementOf[b], now)

\* A body that is not JSON.
NotJson == Body(0, "flat", "notJson")

\* The bodies drawn while invocations overlap.
OverlapBodies ==
    {Body(CANDLES_LIMIT, "up", "none"), Body(CANDLES_LIMIT, "down", "none"),
     Body(Ema50Period, "up", "none")}

(***************************************************************************)
(* The page controller (indicators_ui.js) on the event loop.  A task runs  *)
(* to completion together with the promise reactions it triggers, so an    *)
(* invocation of updateUI can be overtaken only where it awaits the        *)
(* network: at fetch(url) and at response.json().                          *)
(***************************************************************************)
MaxInvocations == 3

MaxClock == 2

Invocations == 1..MaxInvocations

None == [t |-> "none", n |-> 0, d |-> 1]

\* The activation frame that holds the locals of invocation i.
FrameShared(i) == 1

Frame(i) == i

\* Number.prototype.toFixed(digits): the decimal rounded half away from
\* zero, kept as the number it denotes; NaN and the infinities as they are.
Pow10(digits) == IF digits = 0 THEN 1 ELSE IF digits = 1 THEN 10 ELSE 100

toFixed(x, digits) ==
    IF ~IsFinite(x) THEN x
    ELSE LET p == Pow10(digits)
             q == (2 * Abs(x.n) * p + x.d) \div (2 * x.d)
         IN  Rat(Sign(x.n) * q, p)

getRsiStatus(value) ==
    IF Gt(value, Num(70)) THEN "Overbought"
    ELSE IF Lt(value, Num(30)) THEN "Oversold"
    ELSE "Neutral"

\* createCard: the value, the status line and the colour class.
createCard(title, value, status, statusClass) ==
    [title |-> title, value |-> value, status |-> status,
     statusColor |->
        IF statusClass = "up" THEN "text-up"
        ELSE IF statusClass = "down" THEN "text-down"
        ELSE IF statusClass = "rsi"
             THEN IF Gt(value, Num(70)) THEN "text-down"
                  ELSE IF Lt(value, Num(30)) THEN "text-up"
                  ELSE "text-neutral"
        ELSE ""]

\* createBullCard: the score, the colour class and the price rounded to a
\* whole number.
createBullCard(bullData, currentPrice) ==
    [score |-> bullData.score, phase |-> bullData.phase,
     colorClass |-> bullData.phaseColor, price |-> toFixed(currentPrice, 0)]

\* spreadCategory.split(' ')[0]
firstWord(category) ==
    CASE category = "Eleve (Forte volatilite)" -> "Eleve"
      [] category = "Faible (Consolidation)" -> "Faible"
      [] category = "Moyen (Volatilite normale)" -> "Moyen"

\* The content renderBentoGrid writes for the snapshot data; of is the
\* timestamp of the snapshot the content was built from.
gridContent(data) ==
    LET positive == Gt(data.macd.histogram, Num(0))
        bullish == data.ema.trend = "Haussier (Golden Cross)"
    IN  [of |-> data.timestamp,
         bull |-> createBullCard(data.bullMarket, data.currentPrice),
         rsi |-> createCard("RSI (14)", toFixed(data.rsi.value, 1),
                            getRsiStatus(data.rsi.value), "rsi"),
         macd |-> createCard("MACD", toFixed(data.macd.histogram, 2),
                             IF positive THEN "Positive" ELSE "Negative",
                             IF positive THEN "up" ELSE "down"),
         bollinger |-> createCard("Bollinger", firstWord(data.bollinger.spreadCategory),
                                  "Spread", "neutral"),
         trend |-> createCard("Trend", IF bullish THEN "Bullish" ELSE "Bearish",
                              "EMA 50/200", IF bullish THEN "up" ELSE "down")]

\* toFixed and toLocaleString are read on the values: a TypeError when one is
\* null or undefined.
renderThrows(data) ==
    \/ data.currentPrice.t # "number"
    \/ data.rsi.value.t # "number"
    \/ data.macd.histogram.t # "number"

EmptyGrid == [of |-> -1]

NoCall == fn = "none" /\ args = None /\ ret = None

PageInit ==
    /\ clock = 0
    /\ started = 0
    /\ intervalSet = FALSE
    /\ pc = [i \in Invocations |-> "idle"]
    /\ response = [i \in Invocations |-> None]
    /\ batch = [i \in Invocations |-> None]
    /\ result = [i \in Invocations |-> None]
    /\ dom \in [grid : BOOLEAN, overlay : BOOLEAN]
    /\ grid = EmptyGrid
    /\ overlayHidden = FALSE
    /\ logged = 0

Init == PageInit /\ NoCall

\* Date.now() never goes back.
TimePasses ==
    /\ clock < MaxClock
    /\ clock' = clock + 1
    /\ UNCHANGED <<started, intervalSet, pc, response, batch, result, dom, grid,
                   overlayHidden, logged, call>>

\* updateUI is entered: getAllIndicators and fetchKlines run up to
\* `await fetch(url)`, which sends the request.
StartUpdate ==
    /\ started' = started + 1
    /\ pc' = [pc EXCEPT ![started + 1] = "fetch"]
    /\ UNCHANGED <<clock, intervalSet, response, batch, result, dom, grid,
                   overlayHidden, logged, call>>

\* The DOMContentLoaded listener runs up to `await updateUI()`.
DOMContentLoaded ==
    /\ started = 0
    /\ StartUpdate

\* The interval fires, whatever the earlier invocations are doing.
IntervalTick ==
    /\ intervalSet
    /\ started < MaxInvocations
    /\ StartUpdate

\* updateUI's catch: getAllIndicators rejected with e (or rendering threw);
\* the error is logged and nothing else is touched.  The listener resumes
\* after the first updateUI and sets the interval.
CaughtHidingOverlay(i, e) ==
    /\ pc' = [pc EXCEPT ![i] = "done"]
    /\ result' = [result EXCEPT ![i] = Rejected(e)]
    /\ logged' = logged + 1
    /\ intervalSet' = (intervalSet \/ i = 1)
    /\ overlayHidden' = (overlayHidden \/ dom.overlay)
    /\ UNCHANGED <<clock, started, dom, grid, call>>

Caught(i, e) ==
    /\ pc' = [pc EXCEPT ![i] = "done"]
    /\ result' = [result EXCEPT ![i] = Rejected(e)]
    /\ logged' = logged + 1
    /\ intervalSet' = (intervalSet \/ i = 1)
    /\ UNCHANGED <<clock, started, dom, grid, overlayHidden, call>>

\* fetch(url) rejects: the network failed.
FetchRejects(i) ==
    /\ pc[i] = "fetch"
    /\ Caught(i, "NetworkError")
    /\ UNCHANGED <<response, batch>>

\* fetch(url) resolves with a response that is not ok: fetchKlines throws.
FetchNotOk(i) ==
    /\ pc[i] = "fetch"
    /\ Caught(i, "Failed to fetch klines from Binance")
    /\ UNCHANGED <<response, batch>>

\* fetch(url) resolves with an ok response carrying the body b; fetchKlines
\* goes on to `await response.json()`.
FetchResolves(i, b) ==
    /\ pc[i] = "fetch"
    /\ pc' = [pc EXCEPT ![i] = "json"]
    /\ response' = [response EXCEPT ![Frame(i)] = b]
    /\ batch' = [batch EXCEPT ![i] = b]
    /\ UNCHANGED <<clock, started, intervalSet, result, dom, grid, overlayHidden,
                   logged, call>>

\* response.json() rejects: the body is not JSON.
JsonRejects(i) ==
    /\ pc[i] = "json"
    /\ response[Frame(i)] = NotJson
    /\ Caught(i, "SyntaxError")
    /\ UNCHANGED <<response, batch>>

\* updateUI from the settlement `all` of getAllIndicators on: the try block
\* renders and hides the overlay, or the catch block logs.
Settled(i, all) ==
    IF all.kind = "rejected" THEN Caught(i, all.value)
    ELSE IF dom.grid /\ renderThrows(all.value) THEN Caught(i, "TypeError")
    ELSE /\ pc' = [pc EXCEPT ![i] = "done"]
         /\ result' = [result EXCEPT ![i] = all]
         /\ grid' = IF dom.grid THEN gridContent(all.value) ELSE grid
         /\ overlayHidden' = (overlayHidden \/ dom.overlay)
         /\ intervalSet' = (intervalSet \/ i = 1)
         /\ UNCHANGED <<clock, started, dom, logged, call>>

\* response.json() resolves: fetchKlines maps the rows and returns,
\* getAllIndicators computes and returns, updateUI renders or catches.
JsonResolves(i) ==
    /\ pc[i] = "json"
    /\ response[Frame(i)] # NotJson
    /\ Settled(i, getAllIndicators(response[Frame(i)], clock))
    /\ UNCHANGED <<response, batch>>

Settles(i, bodies) ==
    \/ FetchRejects(i)
    \/ FetchNotOk(i)
    \/ \E b \in bodies \cup {NotJson} : FetchResolves(i, b)
    \/ JsonRejects(i)
    \/ JsonResolves(i)

Next ==
    \/ TimePasses
    \/ DOMContentLoaded
    \/ IntervalTick
    \/ \E i \in Invocations : Settles(i, OverlapBodies)

Spec == Init /\ [][Next]_vars

\* The first render alone, over every body.
NextFirst ==
    \/ TimePasses
    \/ DOMContentLoaded
    \/ Settles(1, Bodies)

SpecFirst == Init /\ [][NextFirst]_vars

(***************************************************************************)
(* The library functions applied on their own (BitcoinIndicators exposes   *)
(* the calculators), on short series and small periods.                    *)
(***************************************************************************)
MaxLen == 5

MaxPrice == 2

MaxPeriod == 3

MaxSignal == 2

RECURSIVE SeqsUpTo(_, _)
SeqsUpTo(S, n) ==
    IF n = 0 THEN {<< >>}
    ELSE LET shorter == SeqsUpTo(S, n - 1)
         IN  shorter \cup {Append(q, x) : q \in {r \in shorter : Len(r) = n - 1}, x \in S}

Series == SeqsUpTo({Num(v) : v \in 0..MaxPrice}, MaxLen)

Periods == 1..MaxPeriod

Multipliers == {Num(-1), Num(0), Num(1), Num(2)}

RsiInputs == {Num(0), Num(39), Rat(79, 2), Num(40), Num(55), Num(70), Rat(141, 2),
              Num(75), Num(100)}

RsiArgs == [closes : Series, period : Periods]

EmaArgs == [closes : Series, period : Periods]

MacdArgs ==
    {a \in [closes : Series, fastPeriod : Periods, slowPeriod : Periods,
            signalPeriod : 1..MaxSignal] : a.fastPeriod < a.slowPeriod}

BollingerArgs == [closes : Series, period : Periods, stdDev : Multipliers]

BullArgs ==
    [rsi : RsiInputs, histogram : {Num(-1), Num(0), Num(1)},
     ema50 : {Num(90), Num(100), NaN}, ema200 : {Num(90), Num(100), Num(110), Null},
     currentPrice : {Num(85), Num(95), Num(100), Num(105)}]

InitFn ==
    /\ PageInit
    /\ dom = [grid |-> TRUE, overlay |-> TRUE]
    /\ ret = None
    /\ \/ fn = "calculateRSI" /\ args \in RsiArgs
       \/ fn = "calculateEMA" /\ args \in EmaArgs
       \/ fn = "calculateMACD" /\ args \in MacdArgs
       \/ fn = "calculateBollingerBands" /\ args \in BollingerArgs
       \/ fn = "calculateBullMarketIndicator" /\ args \in BullArgs

Returns(f, v) ==
    /\ fn = f
    /\ ret = None
    /\ ret' = v
    /\ UNCHANGED <<page, fn, args>>

CallRSI == Returns("calculateRSI", calculateRSI(args.closes, args.period))

CallEMA == Returns("calculateEMA", calculateEMA(args.closes, args.period))

CallMACD ==
    Returns("calculateMACD",
            calculateMACD(args.closes, args.fastPeriod, args.slowPeriod,
                          args.signalPeriod))

CallBollinger ==
    Returns("calculateBollingerBands",
            calculateBollingerBands(args.closes, args.period, args.stdDev))

CallBull ==
    Returns("calculateBullMarketIndicator",
            calculateBullMarketIndicator(args.rsi, [histogram |-> args.histogram],
                                         args.ema50, args.ema200, args.currentPrice))

NextFn == CallRSI \/ CallEMA \/ CallMACD \/ CallBollinger \/ CallBull

SpecFn == InitFn /\ [][NextFn]_vars

\* calculateMACD applied on its own, or by the first render.
InitMacd == Init \/ (InitFn /\ fn = "calculateMACD")

NextMacd == CallMACD \/ (NoCall /\ NextFirst)

SpecMacd == InitMacd /\ [][NextMacd]_vars

(***************************************************************************)
(* PROPERTIES                                                              *)
(***************************************************************************)

\* The library function f has returned.
Returned(f) == fn = f /\ ret # None

Range(seq) == {seq[j] : j \in 1..Len(seq)}

\* Invocation i received a JSON body and ran to the end of updateUI.
Aggregated(i) == pc[i] = "done" /\ batch[i] # None /\ batch[i] # NotJson

\* The snapshot v has a value for every indicator.
FullyPopulated(v) ==
    /\ v.rsi.value.t = "number"
    /\ v.macd.macd.t = "number"
    /\ v.macd.signal.t = "number"
    /\ v.macd.histogram.t = "number"
    /\ v.bollinger.upper.t = "number"
    /\ v.bollinger.lower.t = "number"
    /\ v.ema.ema50.t = "number"
    /\ v.ema.ema200.t = "number"

\* C1: a batch of well-formed candles yields a fully populated snapshot
\* exactly when it has at least 200 closes; a shorter batch yields no
\* snapshot at all and no TypeError either.
C1_SnapshotIffLongEnough ==
    \A i \in Invocations :
        (Aggregated(i) /\ batch[i].bad = "none") =>
            IF batch[i].n >= Ema200Period
            THEN result[i].kind = "resolved" /\ FullyPopulated(result[i].value)
            ELSE result[i].kind = "rejected" /\ result[i].value # "TypeError"

C3_PhaseByThresholds ==
    Returned("calculateBullMarketIndicator") =>
        /\ ret.phase = IF ret.score >= 80 THEN "Bull Market Fort"
                       ELSE IF ret.score >= 60 THEN "Bull Market Modere"
                       ELSE IF ret.score >= 40 THEN "Neutre / Consolidation"
                       ELSE IF ret.score >= 20 THEN "Bear Market Modere"
                       ELSE "Bear Market Fort"
        /\ ret.phaseColor = IF ret.score >= 60 THEN "up"
                            ELSE IF ret.score >= 40 THEN "neutral"
                            ELSE "down"

\* C3, the case of the claim: RSI 75, a negative histogram and the price
\* below ema50 below ema200 give the score 0 and the lowest phase.
C3_Witness ==
    /\ Returned("calculateBullMarketIndicator")
    /\ args = [rsi |-> Num(75), histogram |-> Num(-1), ema50 |-> Num(90),
               ema200 |-> Num(100), currentPrice |-> Num(85)]
    /\ ret.score = 0
    /\ ret.phase = "Bear Market Fort"
    /\ ret.phaseColor = "down"

\* No close of the series is below the one before it.
NoFall(closes) == \A k \in 2..Len(closes) : Ge(closes[k], closes[k - 1])

\* calculateRSI was applied to a series long enough for its period.
RsiComputed == Returned("calculateRSI") /\ Len(args.closes) >= args.period + 1

\* C4 as stated: the value is in [0,100] and is 100 exactly when no delta of
\* the series is negative.
C4_HundredIffNoFall ==
    RsiComputed =>
        /\ Le(Num(0), ret) /\ Le(ret, Num(100))
        /\ (ret = Num(100)) <=> NoFall(args.closes)

\* C4, amended: the value is in [0,100] and is 100 when no delta of the
\* series is negative; for a period of at least 2 it is 100 only then.
C4_HundredIffNoFallFromPeriodTwo ==
    RsiComputed =>
        /\ Le(Num(0), ret) /\ Le(ret, Num(100))
        /\ NoFall(args.closes) => ret = Num(100)
        /\ (args.period >= 2 /\ ~NoFall(args.closes)) => ret # Num(100)

\* C4: both loops have run; a flat series gives 100 and a series with a fall
\* and a rise gives a value strictly inside the interval.
C4_Witness ==
    /\ RsiComputed
    /\ args.period = 2
    /\ Len(args.closes) > args.period + 1
    /\ \/ args.closes = [j \in 1..4 |-> Num(1)] /\ ret = Num(100)
       \/ ~NoFall(args.closes) /\ Lt(Num(0), ret) /\ Lt(ret, Num(100))

\* calculateEMA was applied to a series long enough for its period.
EmaComputed == Returned("calculateEMA") /\ Len(args.closes) >= args.period

\* C5: the average returned is between the least and the greatest close.
C5_EmaWithinCloses ==
    EmaComputed =>
        /\ \E low \in Range(args.closes) : Le(low, ret)
        /\ \E high \in Range(args.closes) : Le(ret, high)

\* C5: the recurrence has run on closes that differ and left a value
\* strictly between the extremes.
C5_Witness ==
    /\ EmaComputed
    /\ Len(args.closes) > args.period + 1
    /\ ret \notin Range(args.closes)
    /\ \E low \in Range(args.closes) : Lt(low, ret)
    /\ \E high \in Range(args.closes) : Lt(ret, high)

\* C6: the histogram is the MACD value minus the signal value, in what
\* calculateMACD returns and in the macd record of every snapshot.
C6_HistogramIsMacdMinusSignal ==
    /\ (Returned("calculateMACD") /\ ret # Null) =>
            ret.histogram = Sub(ret.macd, ret.signal)
    /\ \A i \in Invocations :
            (pc[i] = "done" /\ result[i].kind = "resolved") =>
                result[i].value.macd.histogram =
                    Sub(result[i].value.macd.macd, result[i].value.macd.signal)

\* C6: a snapshot whose MACD value and signal differ.
C6_Witness ==
    \E i \in Invocations :
        /\ pc[i] = "done"
        /\ result[i].kind = "resolved"
        /\ IsFinite(result[i].value.macd.histogram)
        /\ result[i].value.macd.histogram # Num(0)
        /\ result[i].value.macd.macd # result[i].value.macd.signal

\* The sum of a series, term by term from the left.
RECURSIVE Total(_)
Total(seq) ==
    IF seq = << >> THEN Num(0)
    ELSE Add(Total(SubSeq(seq, 1, Len(seq) - 1)), seq[Len(seq)])

\* calculateBollingerBands was applied to a series long enough.
BandsComputed == Returned("calculateBollingerBands") /\ ret # Null

\* The band in the middle is the mean of the last `period` closes and the
\* outer bands are at the same distance from it.
BandsSymmetric ==
    /\ Sub(ret.upper, ret.middle) = Sub(ret.middle, ret.lower)
    /\ ret.middle = Div(Total(SubSeq(args.closes,
                                     Len(args.closes) - args.period + 1,
                                     Len(args.closes))),
                        Num(args.period))

BandsOrdered == Ge(ret.upper, ret.middle) /\ Ge(ret.middle, ret.lower)

\* C7 as stated: for any multiplier the bands are symmetric and ordered.
C7_BandsSymmetricAndOrdered ==
    BandsComputed => (BandsSymmetric /\ BandsOrdered)

\* C7, amended: the bands are symmetric for any multiplier and ordered for a
\* multiplier that is not negative.
C7_BandsOrderedForNonNegativeMultiplier ==
    BandsComputed =>
        /\ BandsSymmetric
        /\ Ge(args.stdDev, Num(0)) => BandsOrdered

\* C7: the default multiplier on closes that differ, older closes left out.
C7_Witness ==
    /\ BandsComputed
    /\ args.stdDev = Num(BollingerStdDev)
    /\ Len(args.closes) > args.period
    /\ Gt(ret.upper, ret.middle)
    /\ Gt(ret.middle, ret.lower)

\* The settlement r without its timestamp.
Unstamped(r) == IF r.kind = "resolved" THEN [r EXCEPT !.value.timestamp = 0] ELSE r

\* C8: apart from the timestamp a settlement depends on the invocation's own
\* batch only; two invocations that received the same batch settle alike,
\* whatever ran between their steps.
C8_SettlementOfOwnBatch ==
    /\ \A i \in Invocations :
            Aggregated(i) => Unstamped(result[i]) = settlementOf[batch[i]]
    /\ \A i, j \in Invocations :
            (Aggregated(i) /\ Aggregated(j) /\ batch[i] = batch[j]) =>
                Unstamped(result[i]) = Unstamped(result[j])

\* C8: the third invocation ran from start to end while the second, sent
\* another batch, was still waiting; the first and the third received the
\* same batch and differ by their timestamps only.
C8_Witness ==
    /\ pc[1] = "done" /\ pc[2] = "json" /\ pc[3] = "done"
    /\ Aggregated(1) /\ Aggregated(3)
    /\ batch[1] = batch[3]
    /\ batch[2] # batch[3]
    /\ result[1].kind = "resolved"
    /\ result[3].kind = "resolved"
    /\ result[1].value.timestamp # result[3].value.timestamp

\* C9: a batch with a candle whose open or close is text or is missing
\* yields no snapshot: the invocation fails.
C9_MalformedCandleFailsFast ==
    \A i \in Invocations :
        (Aggregated(i) /\ batch[i].bad \in {"closeText", "closeMissing", "openText"})
            => result[i].kind = "rejected"

\* C10: when the fetch of invocation i fails, the step that ends it settles
\* the invocation as failed, sends no other request, and leaves the grid
\* and the overlay as they were.
C10_FetchFailureLeavesPage ==
    [][\A i \in Invocations :
          (pc[i] = "fetch" /\ pc'[i] # "fetch" /\ pc'[i] # "json") =>
              /\ pc'[i] = "done"
              /\ result'[i].kind = "rejected"
              /\ result'[i].value \in {"NetworkError", "Failed to fetch klines from Binance"}
              /\ batch'[i] = None
              /\ started' = started
              /\ \A j \in Invocations \ {i} : pc'[j] = pc[j]
              /\ grid' = grid
              /\ overlayHidden' = overlayHidden]_vars

\* C10: a later invocation failed at its fetch while the grid shows the
\* snapshot of an earlier one and the overlay is hidden.
C10_Witness ==
    \E i \in Invocations :
        /\ pc[i] = "done"
        /\ batch[i] = None
        /\ result[i].kind = "rejected"
        /\ grid # EmptyGrid
        /\ overlayHidden
        /\ started = i

\* The snapshot v counts the rule of the cross as its trend label says.
CrossAgreesWithBullishTrend(v) ==
    /\ ("Golden Cross" \in Range(v.bullMarket.signals))
            <=> (v.ema.trend = "Haussier (Golden Cross)")
    /\ v.bullMarket.score =
            (IF Ge(v.rsi.value, Num(40)) /\ Le(v.rsi.value, Num(70)) THEN 20 ELSE 0)
              + (IF Gt(v.macd.histogram, Num(0)) THEN 25 ELSE 0)
              + (IF v.ema.trend = "Haussier (Golden Cross)" THEN 30 ELSE 0)
              + (IF Gt(v.currentPrice, v.ema.ema50) THEN 15 ELSE 0)
              + (IF Gt(v.currentPrice, v.ema.ema200) THEN 10 ELSE 0)

\* C11 as stated: in every snapshot the tag Golden Cross, with its weight,
\* goes with the bullish trend, the tag Death Cross with the bearish trend,
\* and neither tag with the neutral trend.
C11_CrossTagMatchesTrend ==
    \A i \in Invocations :
        (pc[i] = "done" /\ result[i].kind = "resolved") =>
            /\ CrossAgreesWithBullishTrend(result[i].value)
            /\ ("Death Cross" \in Range(result[i].value.bullMarket.signals))
                    <=> (result[i].value.ema.trend = "Baissier (Death Cross)")

\* C11, amended: in every snapshot the tag Golden Cross, with its weight,
\* goes with the bullish trend, and the tag Death Cross with every other
\* trend, the neutral one included.
C11_DeathCrossUnlessBullish ==
    \A i \in Invocations :
        (pc[i] = "done" /\ result[i].kind = "resolved") =>
            /\ CrossAgreesWithBullishTrend(result[i].value)
            /\ ("Death Cross" \in Range(result[i].value.bullMarket.signals))
                    <=> (result[i].value.ema.trend # "Haussier (Golden Cross)")

\* C11: a full batch of flat closes, the two averages equal: the trend is
\* neutral and the tag is Death Cross.
C11_Witness ==
    \E i \in Invocations :
        /\ Aggregated(i)
        /\ batch[i] = Body(CANDLES_LIMIT, "flat", "none")
        /\ result[i].kind = "resolved"
        /\ IsFinite(result[i].value.ema.ema50)
        /\ result[i].value.ema.ema50 = result[i].value.ema.ema200
        /\ result[i].value.ema.trend = "Neutre"
        /\ "Death Cross" \in Range(result[i].value.bullMarket.signals)

\* C12: whatever the order in which overlapping invocations complete, each
\* snapshot written to the grid has a timestamp at least that of the one it
\* replaces.
C12_GridTimestampsNeverDecrease ==
    [][grid'.of >= grid.of]_vars

\* C12: the third invocation was started after the second and rendered
\* before it; the grid shows the snapshot of the second, the later one.
C12_Witness ==
    /\ dom.grid
    /\ pc[2] = "done" /\ pc[3] = "done"
    /\ result[2].kind = "resolved"
    /\ result[3].kind = "resolved"
    /\ result[3].value.timestamp < result[2].value.timestamp
    /\ grid.of = result[2].value.timestamp
    /\ batch[2] # batch[3]

=============================================================================
